---- MODULE Spec2Model ----
(***************************************************************************)
(* DirListHash: the traversal-hash-collect-export pipeline of              *)
(* dir_list_hash.py (console front end, variant "cli") and                 *)
(* dir_list_hash_gui.py (graphical front end, variant "gui").              *)
(*                                                                         *)
(* Names of directory entries are modelled as the code point of a          *)
(* one-character name, so Python's str ordering is the integer ordering.   *)
(* A path is the sequence of its components; os.path.join appends one.     *)
(* The component 0 is the scanned directory, the component -1 is ".".      *)
(* A missing value ('' in Python) is the empty sequence; a hex digest is   *)
(* <<algorithm, content>>, a formatted time is <<"ts", seconds>>.          *)
(***************************************************************************)
EXTENDS Integers, Sequences, FiniteSets, TLC

\* bounds of the model: names a directory entry can have, entries of the tree
\* in the traversal specification and in the two-run export specification
MaxName == 2
MaxEntries == 4
MaxExportEntries == 2
MaxFaultEntries == 2
MaxInterval == 2
MaxClicks == 2
MaxGuiItems == 1

VARIABLES
  variant,          \* "cli" (dir_list_hash.py) or "gui" (dir_list_hash_gui.py)
  fs,               \* the file system below the root: resolved path -> entry
  fs_changed,       \* the tree was written to since the last collection
  run,              \* "none", "first", "second": the runs started so far
  pc,               \* position of the current run
  hash_choice,      \* "none", "sha1", "md5", "both"
  output_choice,    \* "csv", "sqlite", "both"
  timestamp_str,    \* the second the run started in (part of the file names)
  collected_data,   \* the Record Store of the current run
  hash_errors,      \* the paths "Error hashing file" was reported for
  prev_run,         \* what the previous run collected and with which hash mode
  csv_file,         \* the CSV file the current run wrote
  db_file,          \* name of the database file db describes
  db,               \* the database file as committed on disk
  txn,              \* the table as the open connection sees it
  entry_data_list,  \* the tuples prepared for executemany
  next_row,         \* index of the next tuple executemany applies
  call,             \* history of the current export_to_sqlite call
  out,              \* what the run reported (progress lines, messages)
  stat_errors,      \* the entries os.stat failed for during the collection
  walk_errors,      \* the directories os.walk could not list
  collect_raised,   \* collect_directory_data ended with an exception
  tree_items,       \* entries below the root, where only their number counts
  data_len,         \* len(data) of a store whose records are not spelled out
  total_items,      \* total_items of the phase in progress
  current_item_count, \* items the loop of the phase has gone through
  loop_updates,     \* progress updates issued by that loop
  progress,         \* the last two progress updates of the phase
  start_button,     \* state of the GUI's start button
  status_label,     \* text of the GUI's status label
  event_queue,      \* callbacks handed to self.after(0, ...), not yet run
  workers,          \* the threads start_processing_thread has started
  ui_accesses,      \* which thread touched which widget or UI variable
  started,          \* runs the start button has started
  finalized         \* runs _finalize_success or _finalize_error has ended

vars == <<variant, fs, fs_changed, run, pc, hash_choice, output_choice,
          timestamp_str, collected_data, hash_errors, prev_run, csv_file,
          db_file, db, txn, entry_data_list, next_row, call, out,
          stat_errors, walk_errors, collect_raised, tree_items, data_len,
          total_items, current_item_count, loop_updates, progress,
          start_button, status_label, event_queue, workers, ui_accesses,
          started, finalized>>

\* what only the collection writes
fault_vars == <<stat_errors, walk_errors, collect_raised>>

\* the state of the GUI: its widgets, its event queue and its threads
gui_vars == <<start_button, status_label, event_queue, workers, ui_accesses,
              started, finalized>>

\* what only the item loops with their progress reporting write
progress_vars == <<tree_items, data_len, total_items, current_item_count,
                   loop_updates, progress>>

Names == 1..MaxName
HashChoices == {"none", "sha1", "md5", "both"}
OutputChoices == {"csv", "sqlite", "both"}
Variants == {"cli", "gui"}
Empty == <<>>

Range(s) == {s[i] : i \in DOMAIN s}

\* ---------------------------------------------------------------- paths

\* os.path.join(root, name)
join(root, name) == Append(root, name)

\* os.path.normpath on the paths of the model: "." components are dropped
normpath(p) == SelectSeq(p, LAMBDA c : c # -1)

\* the directory the user asked to scan
directory_to_hash == <<0>>

\* what the operating system resolves a path to
Resolve(p) == normpath(p)

\* ---------------------------------------------------------- file system

NoEntries == [p \in {} |-> [kind |-> "File", content |-> 1]]

Children(tree, top) ==
  {p \in DOMAIN tree : Len(p) = Len(top) + 1 /\ SubSeq(p, 1, Len(top)) = top}

Files(tree) == {p \in DOMAIN tree : tree[p].kind = "File"}
Folders(tree) == {p \in DOMAIN tree : tree[p].kind = "Folder"}
Directories(tree) == {directory_to_hash} \cup Folders(tree)

\* os.stat: size and the three times of an entry
os_stat(tree, p) ==
  LET e == tree[Resolve(p)] IN
  [st_size  |-> IF e.kind = "File" THEN e.content ELSE 0,
   st_ctime |-> 1,
   st_mtime |-> 1 + e.content,
   st_atime |-> 4]

\* datetime.fromtimestamp(t).strftime("%Y-%m-%d %H:%M:%S")
strftime(t) == <<"ts", t>>

\* the orders a set of names can be listed in
Perms(S) ==
  {s \in [1..Cardinality(S) -> S] : \A i, j \in DOMAIN s : s[i] = s[j] => i = j}

ChildNames(tree, top) == {p[Len(p)] : p \in Children(tree, top)}

\* every way the OS can list the directories of the tree: for each directory
\* a sequence holding each of its entries' names once. The order is not under
\* the program's control.
RECURSIVE ListingsOf(_, _)
ListingsOf(tree, dirs) ==
  IF dirs = {} THEN {[d \in {} |-> <<>>]}
  ELSE LET d == CHOOSE x \in dirs : TRUE IN
       {(d :> s) @@ f : s \in Perms(ChildNames(tree, d)),
                        f \in ListingsOf(tree, dirs \ {d})}

Listings(tree) == ListingsOf(tree, Directories(tree))

\* os.scandir(top): the names in directory top, in the OS's order
scandir(top, listing) == listing[Resolve(top)]

\* os.walk(top), top-down: one (root, dirs, files) triple per directory, the
\* subdirectories visited in the order of the dirs list os.walk itself holds.
\* No onerror is given: a directory whose scandir fails (the paths in denied)
\* yields no triple and the walk goes on
RECURSIVE os_walk(_, _, _, _)
os_walk(tree, top, listing, denied) ==
  IF Resolve(top) \in denied THEN <<>> ELSE
  LET names == scandir(top, listing)
      dirs == SelectSeq(names, LAMBDA n : tree[Resolve(join(top, n))].kind = "Folder")
      nondirs == SelectSeq(names, LAMBDA n : tree[Resolve(join(top, n))].kind = "File")
      RECURSIVE below(_)
      below(i) == IF i > Len(dirs) THEN <<>>
                  ELSE os_walk(tree, join(top, dirs[i]), listing, denied)
                       \o below(i + 1)
  IN  <<[root |-> top, dirs |-> dirs, files |-> nondirs]>> \o below(1)

\* ------------------------------------------------------------- hashing

\* hash_file(filepath, hash_type): '' for another selector, '' when the file
\* cannot be opened or read (the paths in unreadable), else the hex digest
hash_file_partial(tree, unreadable, filepath, hash_type) ==
  IF hash_type \notin {"md5", "sha1"} THEN Empty
  ELSE IF Resolve(filepath) \in unreadable THEN <<hash_type, 0>>
  ELSE <<hash_type, tree[Resolve(filepath)].content>>

hash_file(tree, unreadable, filepath, hash_type) ==
  IF hash_type \notin {"md5", "sha1"} THEN Empty
  ELSE IF Resolve(filepath) \in unreadable THEN Empty
  ELSE <<hash_type, tree[Resolve(filepath)].content>>

\* get_file_details(filepath): 0 and three '' when os.stat raises (the paths
\* in missing)
get_file_details(tree, missing, filepath) ==
  IF Resolve(filepath) \in missing
  THEN [size |-> 0, creation_time |-> Empty, modification_time |-> Empty,
        access_time |-> Empty]
  ELSE
  LET stat_info == os_stat(tree, filepath) IN
  [size |-> stat_info.st_size,
   creation_time |-> strftime(stat_info.st_ctime),
   modification_time |-> strftime(stat_info.st_mtime),
   access_time |-> strftime(stat_info.st_atime)]

\* ---------------------------------------------------------- collection

\* Python's sorted() on a list of names
unsorted(s) == s

RECURSIVE sorted(_)
sorted(s) ==
  IF s = <<>> THEN <<>>
  ELSE LET rest == sorted(Tail(s))
           k == Cardinality({i \in DOMAIN rest : rest[i] <= Head(s)})
       IN  SubSeq(rest, 1, k) \o <<Head(s)>> \o SubSeq(rest, k + 1, Len(rest))

\* the path stored in a record: joined, and normalised by the GUI only
RecordPath(v, root, name) ==
  IF v = "gui" THEN normpath(join(root, name)) ELSE join(root, name)

\* an Entry Record: the dictionary appended to all_items_data
RecordNamedByName(type, fullpath, name, size, sha1, md5, ctime, mtime, atime) ==
  ("Type" :> type) @@ ("FullPath" :> <<name>>) @@ ("Name" :> name)
  @@ ("Size" :> size) @@ ("SHA1 Hash" :> sha1) @@ ("MD5 Hash" :> md5)
  @@ ("Creation Time" :> ctime) @@ ("Modification Time" :> mtime)
  @@ ("Access Time" :> atime)

Record(type, fullpath, name, size, sha1, md5, ctime, mtime, atime) ==
  ("Type" :> type) @@ ("FullPath" :> fullpath) @@ ("Name" :> name)
  @@ ("Size" :> size) @@ ("SHA1 Hash" :> sha1) @@ ("MD5 Hash" :> md5)
  @@ ("Creation Time" :> ctime) @@ ("Modification Time" :> mtime)
  @@ ("Access Time" :> atime)

FileRecord(tree, unreadable, missing, v, choice, root, name) ==
  LET filepath == RecordPath(v, root, name)
      file_sha1_hash == IF choice \in {"sha1", "both"}
                        THEN hash_file(tree, unreadable, filepath, "sha1") ELSE Empty
      file_md5_hash == IF choice \in {"md5", "both"}
                       THEN hash_file(tree, unreadable, filepath, "md5") ELSE Empty
      d == get_file_details(tree, missing, filepath)
  IN  Record("File", filepath, name, d.size, file_sha1_hash, file_md5_hash,
             d.creation_time, d.modification_time, d.access_time)

FolderRecord(tree, v, root, name) ==
  LET dirpath == RecordPath(v, root, name)
      stat_info == os_stat(tree, dirpath)
  IN  Record("Folder", dirpath, name, stat_info.st_size, Empty, Empty,
             strftime(stat_info.st_ctime), strftime(stat_info.st_mtime),
             strftime(stat_info.st_atime))

\* the records one (root, dirs, files) triple of the walk appends
WalkBlock(tree, unreadable, missing, v, choice, w) ==
  LET fnames == sorted(w.files)
      dnames == sorted(w.dirs)
  IN  [i \in 1..Len(fnames) |->
         FileRecord(tree, unreadable, missing, v, choice, w.root, fnames[i])]
      \o [i \in 1..Len(dnames) |-> FolderRecord(tree, v, w.root, dnames[i])]

\* the os.stat(dirpath) of the folder loop is not inside a try: the collection
\* raises at the first listed folder os.stat fails for
collect_raises(tree, missing, directory_path, listing, denied) ==
  /\ missing # {}
  /\ LET walk == os_walk(tree, directory_path, listing, denied) IN
     \E i \in DOMAIN walk : \E k \in DOMAIN walk[i].dirs :
       Resolve(join(walk[i].root, walk[i].dirs[k])) \in missing

\* collect_directory_data(directory_path, hash_choice): all_items_data
collect_directory_data(tree, unreadable, missing, v, directory_path, choice, listing, denied) ==
  LET walk == os_walk(tree, directory_path, listing, denied)
      RECURSIVE all_items_data(_)
      all_items_data(i) ==
        IF i > Len(walk) THEN <<>>
        ELSE WalkBlock(tree, unreadable, missing, v, choice, walk[i])
             \o all_items_data(i + 1)
  IN  all_items_data(1)

\* ----------------------------------------------------------- CSV export

\* export_to_csv: csv_header
csv_header_md5_first(choice) ==
  <<"Type", "Full Path", "Name", "Size (bytes)">>
  \o (IF choice \in {"md5", "both"} THEN <<"MD5 Hash">> ELSE <<>>)
  \o (IF choice \in {"sha1", "both"} THEN <<"SHA1 Hash">> ELSE <<>>)
  \o <<"Creation Time", "Modification Time", "Access Time">>

csv_header(choice) ==
  <<"Type", "Full Path", "Name", "Size (bytes)">>
  \o (IF choice \in {"sha1", "both"} THEN <<"SHA1 Hash">> ELSE <<>>)
  \o (IF choice \in {"md5", "both"} THEN <<"MD5 Hash">> ELSE <<>>)
  \o <<"Creation Time", "Modification Time", "Access Time">>

\* export_to_csv: row
csv_row(item, choice) ==
  <<item["Type"], item["FullPath"], item["Name"], item["Size"]>>
  \o (IF choice \in {"sha1", "both"} THEN <<item["SHA1 Hash"]>> ELSE <<>>)
  \o (IF choice \in {"md5", "both"} THEN <<item["MD5 Hash"]>> ELSE <<>>)
  \o <<item["Creation Time"], item["Modification Time"], item["Access Time"]>>

\* export_to_csv(data, output_csv_file, hash_choice): the file written
export_to_csv(data, choice) ==
  [header |-> csv_header(choice),
   rows |-> [i \in 1..Len(data) |-> csv_row(data[i], choice)]]

\* -------------------------------------------------------- SQLite export

\* export_to_sqlite: columns, the column definitions of CREATE TABLE
columns(choice) ==
  <<[name |-> "Type", decl |-> "TEXT"],
    [name |-> "FullPath", decl |-> "TEXT PRIMARY KEY"],
    [name |-> "Name", decl |-> "TEXT"],
    [name |-> "Size", decl |-> "INTEGER"]>>
  \o (IF choice \in {"sha1", "both"}
      THEN <<[name |-> "SHA1Hash", decl |-> "TEXT"]>> ELSE <<>>)
  \o (IF choice \in {"md5", "both"}
      THEN <<[name |-> "MD5Hash", decl |-> "TEXT"]>> ELSE <<>>)
  \o <<[name |-> "CreationTime", decl |-> "TEXT"],
       [name |-> "ModificationTime", decl |-> "TEXT"],
       [name |-> "AccessTime", decl |-> "TEXT"]>>

\* export_to_sqlite: column_names_for_insert
column_names_for_insert(choice) ==
  <<"Type", "FullPath", "Name", "Size">>
  \o (IF choice \in {"sha1", "both"} THEN <<"SHA1Hash">> ELSE <<>>)
  \o (IF choice \in {"md5", "both"} THEN <<"MD5Hash">> ELSE <<>>)
  \o <<"CreationTime", "ModificationTime", "AccessTime">>

\* export_to_sqlite: entry_data, one tuple of entry_data_list
entry_data(item, choice) ==
  <<item["Type"], item["FullPath"], item["Name"], item["Size"]>>
  \o (IF choice \in {"sha1", "both"} THEN <<item["SHA1 Hash"]>> ELSE <<>>)
  \o (IF choice \in {"md5", "both"} THEN <<item["MD5 Hash"]>> ELSE <<>>)
  \o <<item["Creation Time"], item["Modification Time"], item["Access Time"]>>

\* a database file that does not exist, and the value of a column no INSERT set
NoDb == [exists |-> FALSE, columns |-> <<>>, rows |-> <<>>]
Null == <<"NULL">>

ColumnNames(table) == {table.columns[i].name : i \in DOMAIN table.columns}

\* the columns a table declares PRIMARY KEY
NoPrimaryKey(table) == {}

PrimaryKey(table) ==
  {table.columns[i].name :
     i \in {j \in DOMAIN table.columns : table.columns[j].decl = "TEXT PRIMARY KEY"}}

\* CREATE TABLE IF NOT EXISTS directory_contents (columns): an existing table
\* keeps the columns it was created with
create_table_sql(table, choice) ==
  IF table.exists THEN table
  ELSE [exists |-> TRUE, columns |-> columns(choice), rows |-> <<>>]

\* whether SQLite can compile the INSERT: every column it names is in the table
Compiles(table, names) == Range(names) \subseteq ColumnNames(table)

\* INSERT OR REPLACE INTO directory_contents (names) VALUES (tuple): the rows
\* that conflict with the new row on the primary key are deleted, the new row
\* is added at the end of the table; a column the INSERT does not name is NULL
insert_sql(table, names, tuple) ==
  LET new == [c \in ColumnNames(table) |->
                IF c \in Range(names)
                THEN tuple[CHOOSE i \in DOMAIN names : names[i] = c]
                ELSE Null]
      Conflicts(r) == /\ PrimaryKey(table) # {}
                      /\ \A k \in PrimaryKey(table) : r[k] = new[k]
  IN  [table EXCEPT !.rows = Append(SelectSeq(table.rows, LAMBDA r : ~Conflicts(r)), new)]

\* conn.commit() and conn.rollback(): the table on disk afterwards
commit(disk, pending) == pending

rollback_keeps(disk, pending) == pending

rollback(disk, pending) == disk

\* the names of the report files: directory_listing_ or directory_hash_report_
\* in the console program, directory_<hash_choice or listing>_ in the GUI,
\* followed by the second the run started in
db_filename(v, choice, ts) ==
  <<IF choice = "none" THEN "directory_listing"
    ELSE IF v = "cli" THEN "directory_hash_report"
    ELSE choice,
    ts>>

NoCsv == [header |-> <<>>, rows |-> <<>>]
NoCall == [rows_before |-> <<>>, failure |-> "none", reused |-> FALSE,
           committed |-> FALSE, raised |-> FALSE, conn |-> "none"]
NoRun == [data |-> <<>>, hash_choice |-> "none", committed |-> FALSE]

\* what a run prints or shows once export_to_sqlite has returned
SqliteReports(v) ==
  IF v = "cli" THEN {"Exporting to SQLite: N/N", "Details exported to SQLite"}
  ELSE {"SQLite Export complete.", "SQLite Export finished.", "Process Complete!"}

\* ------------------------------------------------------------- actions

Init ==
  /\ variant \in Variants
  /\ fs = NoEntries
  /\ fs_changed = FALSE
  /\ run = "none"
  /\ pc = "idle"
  /\ hash_choice = "none"
  /\ output_choice = "csv"
  /\ timestamp_str = 1
  /\ collected_data = <<>>
  /\ hash_errors = {}
  /\ prev_run = NoRun
  /\ csv_file = NoCsv
  /\ db_file = <<"", 0>>
  /\ db = NoDb
  /\ txn = NoDb
  /\ entry_data_list = <<>>
  /\ next_row = 1
  /\ call = NoCall
  /\ out = {}
  /\ stat_errors = {}
  /\ walk_errors = {}
  /\ collect_raised = FALSE
  /\ tree_items = 0
  /\ data_len = 0
  /\ total_items = 0
  /\ current_item_count = 0
  /\ loop_updates = 0
  /\ progress = <<>>
  /\ start_button = "normal"
  /\ status_label = <<"Ready.">>
  /\ event_queue = <<>>
  /\ workers = <<>>
  /\ ui_accesses = {}
  /\ started = 0
  /\ finalized = 0

\* the environment creates a file or a folder below the root
CreateEntry(limit) ==
  /\ pc = "idle"
  /\ run = "none"
  /\ Cardinality(DOMAIN fs) < limit
  /\ \E parent \in Directories(fs), name \in Names, kind \in {"File", "Folder"} :
       /\ join(parent, name) \notin DOMAIN fs
       /\ fs' = [p \in DOMAIN fs \cup {join(parent, name)} |->
                   IF p \in DOMAIN fs THEN fs[p]
                   ELSE [kind |-> kind, content |-> IF kind = "File" THEN 1 ELSE 0]]
  /\ UNCHANGED <<fault_vars, progress_vars, gui_vars>>
  /\ UNCHANGED <<variant, fs_changed, run, pc, hash_choice, output_choice,
                 timestamp_str, collected_data, hash_errors, prev_run, csv_file,
                 db_file, db, txn, entry_data_list, next_row, call, out>>

\* the environment rewrites a file between two runs
WriteFile ==
  /\ pc = "idle"
  /\ run = "first"
  /\ ~fs_changed
  /\ \E p \in Files(fs) :
       /\ fs[p].content = 1
       /\ fs' = [fs EXCEPT ![p].content = 2]
  /\ fs_changed' = TRUE
  /\ UNCHANGED <<fault_vars, progress_vars, gui_vars>>
  /\ UNCHANGED <<variant, run, pc, hash_choice, output_choice, timestamp_str,
                 collected_data, hash_errors, prev_run, csv_file, db_file, db,
                 txn, entry_data_list, next_row, call, out>>

\* __main__ / start_processing_thread: the hash type and the output format
\* are chosen (the formats the specification exercises), the run starts
StartRun(formats) ==
  /\ pc = "idle"
  /\ run \in {"none", "first"}
  /\ run' = IF run = "none" THEN "first" ELSE "second"
  /\ hash_choice' \in HashChoices
  /\ output_choice' \in formats
  /\ timestamp_str' \in IF run = "none" THEN {timestamp_str}
                        ELSE {timestamp_str, timestamp_str + 1}
  /\ prev_run' = IF run = "none" THEN NoRun
                 ELSE [data |-> collected_data, hash_choice |-> hash_choice,
                       committed |-> call.committed]
  /\ pc' = "collect"
  /\ out' = {}
  /\ csv_file' = NoCsv
  /\ txn' = NoDb
  /\ entry_data_list' = <<>>
  /\ next_row' = 1
  /\ call' = NoCall
  /\ stat_errors' = {}
  /\ walk_errors' = {}
  /\ collect_raised' = FALSE
  /\ UNCHANGED <<progress_vars, gui_vars>>
  /\ UNCHANGED <<variant, fs, fs_changed, collected_data, hash_errors,
                 db_file, db>>

\* what the run shows when an exception leaves collect_directory_data or an
\* exporter: the console program ends with the traceback, the GUI's worker
\* hands the error to _finalize_error
UncaughtReports(v) ==
  IF v = "cli" THEN {"Traceback (most recent call last)"}
  ELSE {"ERROR! Check log."}

\* collected_data = collect_directory_data(directory_to_hash, hash_choice).
\* The OS lists each directory in some order; opening or reading fails for
\* some of the files in failing, which matters when hash_file is called. Of
\* the paths in faulty some entries are gone when os.stat is called (a file
\* that is gone cannot be opened either) and some directories cannot be
\* listed; the scanned directory, a directory when the run was started, is
\* one of them when it is gone by now
Collect(failing, faulty) ==
  /\ pc = "collect"
  /\ \E listing \in Listings(fs),
        unreadable \in SUBSET (IF hash_choice = "none" THEN {} ELSE failing),
        missing \in SUBSET (faulty \cap DOMAIN fs),
        denied \in SUBSET (faulty \cap Directories(fs)) :
       LET cannot_open == unreadable \cup (IF hash_choice = "none" THEN {}
                                           ELSE missing \cap Files(fs))
           raises == collect_raises(fs, missing, directory_to_hash, listing, denied)
       IN  /\ collected_data' =
                IF raises THEN <<>>
                ELSE collect_directory_data(fs, cannot_open, missing, variant,
                        directory_to_hash, hash_choice, listing, denied)
           /\ hash_errors' = cannot_open
           /\ stat_errors' = missing
           /\ walk_errors' = denied
           /\ collect_raised' = raises
           /\ pc' = IF raises THEN "idle" ELSE "collected"
           /\ out' = IF raises THEN out \cup UncaughtReports(variant) ELSE out
  /\ fs_changed' = FALSE
  /\ UNCHANGED <<progress_vars, gui_vars>>
  /\ UNCHANGED <<variant, fs, run, hash_choice, output_choice, timestamp_str,
                 prev_run, csv_file, db_file, db, txn, entry_data_list,
                 next_row, call>>

\* export_to_csv(collected_data, output_csv_file, hash_choice) and the print
\* that follows it
ExportCsv ==
  /\ pc = "collected"
  /\ output_choice \in {"csv", "both"}
  /\ csv_file = NoCsv
  /\ csv_file' = export_to_csv(collected_data, hash_choice)
  /\ out' = out \cup {"Details exported to CSV"}
           \cup (IF output_choice = "csv" /\ variant = "gui"
                 THEN {"Process Complete!"} ELSE {})
  /\ pc' = IF output_choice = "both" THEN "collected" ELSE "idle"
  /\ UNCHANGED <<fault_vars, progress_vars, gui_vars>>
  /\ UNCHANGED <<variant, fs, fs_changed, run, hash_choice, output_choice,
                 timestamp_str, collected_data, hash_errors, prev_run, db_file,
                 db, txn, entry_data_list, next_row, call>>

\* export_to_sqlite up to the bulk insert: connect, CREATE TABLE IF NOT EXISTS
\* (not part of a transaction), and the tuples prepared from the records
SqliteBegin ==
  /\ pc = "collected"
  /\ output_choice \in {"sqlite", "both"}
  /\ output_choice = "both" => csv_file # NoCsv
  /\ LET output_db_file == db_filename(variant, hash_choice, timestamp_str)
         found == IF output_db_file = db_file THEN db ELSE NoDb
         table == create_table_sql(found, hash_choice)
     IN  /\ db_file' = output_db_file
         /\ db' = table
         /\ txn' = table
         /\ call' = [rows_before |-> found.rows, failure |-> "none",
                     reused |-> found.exists, committed |-> FALSE,
                     raised |-> FALSE, conn |-> "open"]
  /\ entry_data_list' = [i \in 1..Len(collected_data) |->
                           entry_data(collected_data[i], hash_choice)]
  /\ next_row' = 1
  /\ pc' = "insert"
  /\ UNCHANGED <<fault_vars, progress_vars, gui_vars>>
  /\ UNCHANGED <<variant, fs, fs_changed, run, hash_choice, output_choice,
                 timestamp_str, collected_data, hash_errors, prev_run,
                 csv_file, out>>

\* export_to_sqlite when cursor.execute(create_table_sql) raises (the file is
\* not a database, is locked, the disk is full): the statement is outside the
\* try, the exception leaves the function past conn.close()
SqliteCreateFail ==
  /\ pc = "collected"
  /\ output_choice \in {"sqlite", "both"}
  /\ output_choice = "both" => csv_file # NoCsv
  /\ LET output_db_file == db_filename(variant, hash_choice, timestamp_str)
         found == IF output_db_file = db_file THEN db ELSE NoDb
     IN  /\ db_file' = output_db_file
         /\ db' = found
         /\ txn' = found
         /\ call' = [rows_before |-> found.rows, failure |-> "create",
                     reused |-> found.exists, committed |-> FALSE,
                     raised |-> TRUE, conn |-> "open"]
  /\ out' = out \cup UncaughtReports(variant)
  /\ pc' = "idle"
  /\ UNCHANGED <<fault_vars, progress_vars, gui_vars>>
  /\ UNCHANGED <<variant, fs, fs_changed, run, hash_choice, output_choice,
                 timestamp_str, collected_data, hash_errors, prev_run,
                 csv_file, entry_data_list, next_row>>

\* cursor.executemany applies the next tuple inside the open transaction
SqliteInsertRow ==
  /\ pc = "insert"
  /\ Compiles(txn, column_names_for_insert(hash_choice))
  /\ next_row <= Len(entry_data_list)
  /\ txn' = insert_sql(txn, column_names_for_insert(hash_choice),
                       entry_data_list[next_row])
  /\ next_row' = next_row + 1
  /\ UNCHANGED <<fault_vars, progress_vars, gui_vars>>
  /\ UNCHANGED <<variant, fs, fs_changed, run, pc, hash_choice, output_choice,
                 timestamp_str, collected_data, hash_errors, prev_run, csv_file,
                 db_file, db, entry_data_list, call, out>>

\* every tuple is applied: conn.commit(), conn.close(), the final progress
\* line, and the caller's message
SqliteCommit ==
  /\ pc = "insert"
  /\ Compiles(txn, column_names_for_insert(hash_choice))
  /\ next_row > Len(entry_data_list)
  /\ db' = commit(db, txn)
  /\ call' = [call EXCEPT !.committed = TRUE, !.conn = "closed"]
  /\ out' = out \cup SqliteReports(variant)
  /\ pc' = "idle"
  /\ UNCHANGED <<fault_vars, progress_vars, gui_vars>>
  /\ UNCHANGED <<variant, fs, fs_changed, run, hash_choice, output_choice,
                 timestamp_str, collected_data, hash_errors, prev_run, csv_file,
                 db_file, txn, entry_data_list, next_row>>

\* what the run reports after the except block of export_to_sqlite: the console
\* program prints the error and carries on, the GUI re-raises to _finalize_error
FailureReports(v) ==
  IF v = "cli"
  THEN {"Error during bulk insert"} \cup SqliteReports("cli")
  ELSE {"ERROR! Check log."}

\* whether the except block of export_to_sqlite re-raises the error
Raises(v) == v = "gui"

\* executemany or commit raises: the INSERT does not compile against the table
\* found ("schema"), or the write fails at any tuple ("io"). conn.rollback(),
\* conn.close(), and the rest of the run
SqliteFail ==
  /\ pc = "insert"
  /\ \E cause \in {"schema", "io"} :
       /\ (cause = "schema") = ~Compiles(txn, column_names_for_insert(hash_choice))
       /\ call' = [call EXCEPT !.failure = cause, !.raised = Raises(variant),
                               !.conn = "closed"]
  /\ db' = rollback(db, txn)
  /\ txn' = rollback(db, txn)
  /\ out' = out \cup FailureReports(variant)
  /\ pc' = "idle"
  /\ UNCHANGED <<fault_vars, progress_vars, gui_vars>>
  /\ UNCHANGED <<variant, fs, fs_changed, run, hash_choice, output_choice,
                 timestamp_str, collected_data, hash_errors, prev_run, csv_file,
                 db_file, entry_data_list, next_row>>

\* -------------------------------------------------- progress reporting
\* The loops of the three phases, item by item, for trees too large to spell
\* out: of the tree and of the Record Store only the number of items counts.

max(a, b) == IF a >= b THEN a ELSE b

\* progress_interval = max(1, total_items // 1000)
progress_interval_each(n) == 1

progress_interval(n) == max(1, n \div 1000)

\* one progress update: the arguments of update_counter, the numbers and the
\* text of the console's progress line
Update(current, total, text) == [done |-> current, total |-> total, label |-> text]

\* the last two updates of a phase once one more is issued
Issue(tail, u) == IF tail = <<>> THEN <<u>> ELSE <<tail[Len(tail)], u>>

\* the numbers of entries a scanned tree has
ItemCounts ==
  {1, 2} \cup {1000 * j + d : j \in 1..MaxInterval, d \in {-1, 0, 1}}

\* the phase labels of the two front ends
CollectLabel(v) == IF v = "gui" THEN "Collecting data..." ELSE "Collecting data"
CollectDoneLabel(v) == IF v = "gui" THEN "Collection complete." ELSE "Collecting data"
CsvLabel(v) == IF v = "gui" THEN "Exporting to CSV..." ELSE "Exporting to CSV"
CsvDoneLabel(v) == IF v = "gui" THEN "CSV Export complete." ELSE "Exporting to CSV"
PrepareLabel(v) ==
  IF v = "gui" THEN "Preparing data for SQLite..." ELSE "Preparing data for SQLite"
BulkLabel == "Executing bulk insert into SQLite..."
SqliteDoneLabel(v) ==
  IF v = "gui" THEN "SQLite Export complete." ELSE "Exporting to SQLite"

\* the variables the item loops leave alone
pipeline_vars == <<variant, fs, run, hash_choice, output_choice, timestamp_str,
                   collected_data, hash_errors, prev_run, csv_file, db_file,
                   db, txn, entry_data_list, next_row, call>>

\* the environment fills the scanned directory before the run
PopulateTree ==
  /\ pc = "idle"
  /\ run = "none"
  /\ tree_items = 0
  /\ tree_items' \in ItemCounts
  /\ UNCHANGED <<pipeline_vars, fault_vars, gui_vars, pc, fs_changed, out, data_len,
                 total_items, current_item_count, loop_updates, progress>>

\* collect_directory_data: the first os.walk counts the items, the interval is
\* set, the GUI's callback gets the initial update
PrePass ==
  /\ pc = "collect"
  /\ total_items' = tree_items
  /\ current_item_count' = 0
  /\ loop_updates' = 0
  /\ progress' = IF variant = "gui"
                 THEN <<Update(0, tree_items, CollectLabel(variant))>> ELSE <<>>
  /\ pc' = "walk"
  /\ UNCHANGED <<pipeline_vars, fault_vars, gui_vars, fs_changed, out, tree_items, data_len>>

\* the environment adds or removes an entry between the two walks
TreeChanges ==
  /\ pc = "walk"
  /\ current_item_count = 0
  /\ ~fs_changed
  /\ tree_items' \in {tree_items + 1} \cup (IF tree_items > 0 THEN {tree_items - 1} ELSE {})
  /\ fs_changed' = TRUE
  /\ UNCHANGED <<pipeline_vars, fault_vars, gui_vars, pc, out, data_len, total_items,
                 current_item_count, loop_updates, progress>>

\* one turn of an item loop: the counter goes up; the update is issued when
\* the loop is not throttled or the counter is a multiple of the interval
ItemStep(throttled, text) ==
  /\ current_item_count' = current_item_count + 1
  /\ IF ~throttled \/ (current_item_count + 1) % progress_interval(total_items) = 0
     THEN /\ progress' = Issue(progress,
                               Update(current_item_count + 1, total_items, text))
          /\ loop_updates' = loop_updates + 1
     ELSE UNCHANGED <<progress, loop_updates>>

\* collect_directory_data: one file or folder of the second os.walk
WalkItem ==
  /\ pc = "walk"
  /\ current_item_count < tree_items
  /\ ItemStep(TRUE, CollectLabel(variant))
  /\ UNCHANGED <<pipeline_vars, fault_vars, gui_vars, pc, fs_changed, out, tree_items,
                 data_len, total_items>>

\* collect_directory_data: the final update and the return of all_items_data
WalkFinal ==
  /\ pc = "walk"
  /\ current_item_count = tree_items
  /\ progress' = Issue(progress,
                       Update(total_items, total_items, CollectDoneLabel(variant)))
  /\ data_len' = current_item_count
  /\ pc' = "collected"
  /\ UNCHANGED <<pipeline_vars, fault_vars, gui_vars, fs_changed, out, tree_items,
                 total_items, current_item_count, loop_updates>>

\* export_to_csv: total_items = len(data), the interval, the GUI's initial update
CsvBegin ==
  /\ pc = "collected"
  /\ output_choice \in {"csv", "both"}
  /\ total_items' = data_len
  /\ current_item_count' = 0
  /\ loop_updates' = 0
  /\ progress' = IF variant = "gui"
                 THEN <<Update(0, data_len, CsvLabel(variant))>> ELSE <<>>
  /\ pc' = "csv"
  /\ UNCHANGED <<pipeline_vars, fault_vars, gui_vars, fs_changed, out, tree_items, data_len>>

\* export_to_csv: one row
CsvItem ==
  /\ pc = "csv"
  /\ current_item_count < data_len
  /\ ItemStep(TRUE, CsvLabel(variant))
  /\ UNCHANGED <<pipeline_vars, fault_vars, gui_vars, pc, fs_changed, out, tree_items,
                 data_len, total_items>>

\* export_to_csv: the final update
CsvFinal ==
  /\ pc = "csv"
  /\ current_item_count = data_len
  /\ progress' = Issue(progress,
                       Update(total_items, total_items, CsvDoneLabel(variant)))
  /\ pc' = "csv_done"
  /\ UNCHANGED <<pipeline_vars, fault_vars, gui_vars, fs_changed, out, tree_items,
                 data_len, total_items, current_item_count, loop_updates>>

\* export_to_sqlite up to the row-preparation loop
PrepareBegin ==
  /\ pc = "csv_done"
  /\ output_choice \in {"sqlite", "both"}
  /\ total_items' = data_len
  /\ current_item_count' = 0
  /\ loop_updates' = 0
  /\ progress' = IF variant = "gui"
                 THEN <<Update(0, data_len, PrepareLabel(variant))>> ELSE <<>>
  /\ pc' = "prepare"
  /\ UNCHANGED <<pipeline_vars, fault_vars, gui_vars, fs_changed, out, tree_items, data_len>>

\* export_to_sqlite: one tuple is prepared; the console program writes its
\* progress line for every item, the GUI's loop is throttled
PrepareItem ==
  /\ pc = "prepare"
  /\ current_item_count < data_len
  /\ ItemStep(variant = "gui", PrepareLabel(variant))
  /\ UNCHANGED <<pipeline_vars, fault_vars, gui_vars, pc, fs_changed, out, tree_items,
                 data_len, total_items>>

\* export_to_sqlite after the loop: the console program writes the final
\* progress line of the preparation and then the line of the bulk insert, the
\* GUI issues the update labelled with the bulk insert
PrepareFinal ==
  /\ pc = "prepare"
  /\ current_item_count = data_len
  /\ progress' = Issue(progress,
                   Update(total_items, total_items,
                          IF variant = "gui" THEN BulkLabel ELSE PrepareLabel(variant)))
  /\ out' = IF variant = "cli" THEN out \cup {BulkLabel} ELSE out
  /\ pc' = "bulk"
  /\ UNCHANGED <<pipeline_vars, fault_vars, gui_vars, fs_changed, tree_items, data_len,
                 total_items, current_item_count, loop_updates>>

\* export_to_sqlite: executemany, commit, close and the final update
BulkInsert ==
  /\ pc = "bulk"
  /\ progress' = Issue(progress,
                       Update(total_items, total_items, SqliteDoneLabel(variant)))
  /\ pc' = "idle"
  /\ UNCHANGED <<pipeline_vars, fault_vars, gui_vars, fs_changed, out, tree_items,
                 data_len, total_items, current_item_count, loop_updates>>

\* -------------------------------------------------------------- the GUI
\* DirListHashApp: the foreground thread runs the event loop, each click on
\* the start button starts a thread that runs _process_directory.

\* self.after(0, callback, *args): the callback joins the callbacks waiting for
\* the event loop, behind those handed over before it
after_first(queue, callback) == <<callback>> \o queue

after(queue, callback) == Append(queue, callback)

\* DirListHashApp.update_counter(current, total, text)
update_counter(queue, current, total, text) ==
  after(queue, [handler |-> "_set_gui_counter", args |-> <<current, total, text>>])

\* the updates the throttled loop of a phase issues for n items
LoopUpdates(n, text) ==
  SelectSeq([i \in 1..n |-> Update(i, n, text)],
            LAMBDA u : u.done % progress_interval(n) = 0)

\* the calls of update_counter one phase of the worker makes, in order
WorkerUpdates(phase, n) ==
  CASE phase = "collect" ->
         <<Update(0, n, CollectLabel("gui"))>> \o LoopUpdates(n, CollectLabel("gui"))
         \o <<Update(n, n, CollectDoneLabel("gui"))>>
    [] phase = "csv" ->
         <<Update(0, n, CsvLabel("gui"))>> \o LoopUpdates(n, CsvLabel("gui"))
         \o <<Update(n, n, CsvDoneLabel("gui"))>>
    [] phase = "sqlite" ->
         <<Update(0, n, PrepareLabel("gui"))>> \o LoopUpdates(n, PrepareLabel("gui"))
         \o <<Update(n, n, BulkLabel), Update(n, n, SqliteDoneLabel("gui"))>>
    [] OTHER -> <<>>

\* the phase of _process_directory that follows a phase
NextPhase(phase, choice) ==
  CASE phase = "collect" -> IF choice \in {"csv", "both"} THEN "csv" ELSE "sqlite"
    [] phase = "csv" -> IF choice \in {"sqlite", "both"} THEN "sqlite" ELSE "success"
    [] OTHER -> "success"

\* a thread touches a widget or a UI variable
Access(thread, object) == [thread |-> thread, object |-> object]

UiVariables == {"input_dir_path", "output_dir_path", "hash_choice", "output_choice"}

\* threading.Thread(target=self._process_directory), just started
NewWorker == [pc |-> "config", output_choice |-> "csv", items |-> 0, posted |-> 0]

\* a thread that has ended: nothing of its local variables is left
EndedWorker == [pc |-> "done", output_choice |-> "csv", items |-> 0, posted |-> 0]

FinalOutcomes == {<<"Process Complete!">>, <<"ERROR! Check log.">>}

\* start_processing_thread, the command of the start button; Tk runs it only
\* while the button is not disabled. Without a valid input directory it shows
\* the error box and returns
ClickStart ==
  /\ variant = "gui"
  /\ start_button = "normal"
  /\ started < MaxClicks
  /\ \E valid \in BOOLEAN :
       IF valid
       THEN /\ start_button' = "disabled"
            /\ status_label' = <<"Starting process...">>
            /\ workers' = Append(workers, NewWorker)
            /\ started' = started + 1
            /\ ui_accesses' = ui_accesses
                 \cup {Access("main", o) : o \in UiVariables}
                 \cup {Access("main", "start_button"), Access("main", "status_label"),
                       Access("main", "log_text")}
            /\ UNCHANGED <<event_queue, finalized>>
       ELSE /\ ui_accesses' = ui_accesses \cup {Access("main", "input_dir_path")}
            /\ UNCHANGED <<start_button, status_label, event_queue, workers,
                           started, finalized>>
  /\ UNCHANGED <<pipeline_vars, fault_vars, progress_vars, pc, fs_changed, out>>

\* _process_directory: the worker reads the four UI variables
WorkerConfig(w) ==
  /\ workers[w].pc = "config"
  /\ \E choice \in OutputChoices :
       workers' = [workers EXCEPT ![w].pc = "mkdir", ![w].output_choice = choice]
  /\ ui_accesses' = ui_accesses \cup {Access("worker", o) : o \in UiVariables}
  /\ UNCHANGED <<start_button, status_label, event_queue, started, finalized>>
  /\ UNCHANGED <<pipeline_vars, fault_vars, progress_vars, pc, fs_changed, out>>

\* _process_directory: the output directory is made, self.log writes two lines
\* into the log box, collect_directory_data is called on a tree of some size
WorkerMakesDir(w) ==
  /\ workers[w].pc = "mkdir"
  /\ \E n \in 0..MaxGuiItems :
       workers' = [workers EXCEPT ![w].pc = "collect", ![w].items = n,
                                  ![w].posted = 0]
  /\ ui_accesses' = ui_accesses \cup {Access("worker", "log_text")}
  /\ UNCHANGED <<start_button, status_label, event_queue, started, finalized>>
  /\ UNCHANGED <<pipeline_vars, fault_vars, progress_vars, pc, fs_changed, out>>

\* the collection or an exporter calls update_counter
WorkerPosts(w) ==
  /\ workers[w].pc \in {"collect", "csv", "sqlite"}
  /\ LET updates == WorkerUpdates(workers[w].pc, workers[w].items) IN
     /\ workers[w].posted < Len(updates)
     /\ LET u == updates[workers[w].posted + 1] IN
        event_queue' = update_counter(event_queue, u.done, u.total, u.label)
  /\ workers' = [workers EXCEPT ![w].posted = @ + 1]
  /\ UNCHANGED <<start_button, status_label, ui_accesses, started, finalized>>
  /\ UNCHANGED <<pipeline_vars, fault_vars, progress_vars, pc, fs_changed, out>>

\* the collection or an exporter returns: self.log writes into the log box,
\* the next phase begins
WorkerNextPhase(w) ==
  /\ workers[w].pc \in {"collect", "csv", "sqlite"}
  /\ workers[w].posted = Len(WorkerUpdates(workers[w].pc, workers[w].items))
  /\ workers' = [workers EXCEPT
                   ![w].pc = NextPhase(workers[w].pc, workers[w].output_choice),
                   ![w].posted = 0]
  /\ ui_accesses' = ui_accesses \cup {Access("worker", "log_text")}
  /\ UNCHANGED <<start_button, status_label, event_queue, started, finalized>>
  /\ UNCHANGED <<pipeline_vars, fault_vars, progress_vars, pc, fs_changed, out>>

\* self.after(0, self._finalize_success), the last statement of the thread
WorkerSucceeds(w) ==
  /\ workers[w].pc = "success"
  /\ event_queue' = after(event_queue, [handler |-> "_finalize_success", args |-> <<>>])
  /\ workers' = [workers EXCEPT ![w] = EndedWorker]
  /\ UNCHANGED <<start_button, status_label, ui_accesses, started, finalized>>
  /\ UNCHANGED <<pipeline_vars, fault_vars, progress_vars, pc, fs_changed, out>>

\* a statement of the try block raises: except Exception hands the error to
\* self.after(0, self._finalize_error, e) and the thread ends
WorkerRaises(w) ==
  /\ workers[w].pc \in {"mkdir", "collect", "csv", "sqlite"}
  /\ event_queue' = after(event_queue, [handler |-> "_finalize_error", args |-> <<>>])
  /\ workers' = [workers EXCEPT ![w] = EndedWorker]
  /\ UNCHANGED <<start_button, status_label, ui_accesses, started, finalized>>
  /\ UNCHANGED <<pipeline_vars, fault_vars, progress_vars, pc, fs_changed, out>>

\* the event loop of the foreground thread runs the callback that waited
\* longest: _set_gui_counter, _finalize_success or _finalize_error
HandleEvent ==
  /\ event_queue # <<>>
  /\ LET ev == Head(event_queue) IN
     IF ev.handler = "_set_gui_counter"
     THEN /\ status_label' = <<ev.args[3], ev.args[1], ev.args[2]>>
          /\ ui_accesses' = ui_accesses \cup {Access("main", "status_label")}
          /\ UNCHANGED <<start_button, finalized>>
     ELSE /\ status_label' = IF ev.handler = "_finalize_success"
                             THEN <<"Process Complete!">>
                             ELSE <<"ERROR! Check log.">>
          /\ start_button' = "normal"
          /\ finalized' = finalized + 1
          /\ ui_accesses' = ui_accesses
               \cup {Access("main", "log_text"), Access("main", "status_label"),
                     Access("main", "start_button")}
  /\ event_queue' = Tail(event_queue)
  /\ UNCHANGED <<workers, started>>
  /\ UNCHANGED <<pipeline_vars, fault_vars, progress_vars, pc, fs_changed, out>>

\* one step of one of the worker threads
WorkerStep ==
  \E w \in DOMAIN workers :
    \/ WorkerConfig(w)
    \/ WorkerMakesDir(w)
    \/ WorkerPosts(w)
    \/ WorkerNextPhase(w)
    \/ WorkerSucceeds(w)
    \/ WorkerRaises(w)

\* one run of the pipeline: traversal, CSV export, SQLite export
Next ==
  \/ CreateEntry(MaxExportEntries)
  \/ (run = "none" /\ StartRun(OutputChoices))
  \/ Collect(Files(fs), {})
  \/ ExportCsv
  \/ SqliteBegin
  \/ SqliteCreateFail
  \/ SqliteInsertRow
  \/ SqliteCommit
  \/ SqliteFail

Spec == Init /\ [][Next]_vars

\* two runs that export to SQLite, a file rewritten between them, every file
\* readable; the second run finds the first run's database when the file
\* names agree
NextRerun ==
  \/ CreateEntry(MaxExportEntries)
  \/ WriteFile
  \/ StartRun({"sqlite"})
  \/ Collect({}, {})
  \/ SqliteBegin
  \/ SqliteCreateFail
  \/ SqliteInsertRow
  \/ SqliteCommit
  \/ SqliteFail

SpecRerun == Init /\ [][NextRerun]_vars

\* the traversal on larger trees: one run that ends with the Record Store
NextWalk ==
  \/ CreateEntry(MaxEntries)
  \/ (run = "none" /\ StartRun({"csv"}))
  \/ Collect(Files(fs), {})

SpecWalk == Init /\ [][NextWalk]_vars

\* one run over a tree in which, by the time of the collection, entries may be
\* gone or inaccessible and directories may not be listable
NextFaults ==
  \/ CreateEntry(MaxFaultEntries)
  \/ (run = "none" /\ StartRun({"csv"}))
  \/ Collect({}, Directories(fs) \cup DOMAIN fs)
  \/ ExportCsv

SpecFaults == Init /\ [][NextFaults]_vars

\* one run over a large tree that exports to both formats, loop by loop
NextProgress ==
  \/ PopulateTree
  \/ (run = "none" /\ hash_choice' = "none" /\ StartRun({"both"}))
  \/ PrePass
  \/ TreeChanges
  \/ WalkItem
  \/ WalkFinal
  \/ CsvBegin
  \/ CsvItem
  \/ CsvFinal
  \/ PrepareBegin
  \/ PrepareItem
  \/ PrepareFinal
  \/ BulkInsert

SpecProgress == Init /\ [][NextProgress]_vars

\* the GUI: the user's clicks, the worker threads and the event loop
NextGui ==
  \/ ClickStart
  \/ \E w \in DOMAIN workers : WorkerConfig(w)
  \/ \E w \in DOMAIN workers : WorkerMakesDir(w)
  \/ \E w \in DOMAIN workers : WorkerPosts(w)
  \/ \E w \in DOMAIN workers : WorkerNextPhase(w)
  \/ \E w \in DOMAIN workers : WorkerSucceeds(w)
  \/ \E w \in DOMAIN workers : WorkerRaises(w)
  \/ HandleEvent

SpecGui == Init /\ [][NextGui]_vars

\* the same with the scheduling the GUI relies on: a started thread goes on
\* running and the event loop goes on running the callbacks handed to it
SpecGuiFair == SpecGui /\ WF_vars(WorkerStep) /\ WF_vars(HandleEvent)

\* ------------------------------------------------------------- claims

\* the directory a record's entry lies in
Parent(path) == SubSeq(path, 1, Len(path) - 1)

\* path lies below directory dir
Under(path, dir) == Len(path) > Len(dir) /\ SubSeq(path, 1, Len(dir)) = dir

PathOf(k) == collected_data[k]["FullPath"]

\* the indices of the records of the direct children of directory dir
ChildRecords(dir) == {k \in DOMAIN collected_data : Parent(PathOf(k)) = dir}

RecordedParents == {Parent(PathOf(k)) : k \in DOMAIN collected_data}

\* C1: in the Record Store the records of the direct children of one directory
\* are a contiguous block, the File records before the Folder records, the
\* File records in ascending name order and the Folder records in ascending
\* name order.
C1_ChildrenBlockSorted ==
  \A dir \in RecordedParents :
    /\ \A i, j \in ChildRecords(dir) :
         \A k \in DOMAIN collected_data : (i < k /\ k < j) => k \in ChildRecords(dir)
    /\ \A i, j \in ChildRecords(dir) :
         i < j =>
           /\ ~(collected_data[i]["Type"] = "Folder" /\ collected_data[j]["Type"] = "File")
           /\ collected_data[i]["Type"] = collected_data[j]["Type"]
                => collected_data[i]["Name"] < collected_data[j]["Name"]

\* C1 witness: a collected store in which one directory has two files and a
\* directory has a file and a folder, in a tree of four entries.
C1_Witness ==
  /\ pc = "collected"
  /\ Len(collected_data) = 4
  /\ \E dir \in RecordedParents : \E i, j \in ChildRecords(dir) :
       /\ i # j
       /\ collected_data[i]["Type"] = "File"
       /\ collected_data[j]["Type"] = "File"
  /\ \E dir \in RecordedParents : \E i, j \in ChildRecords(dir) :
       /\ collected_data[i]["Type"] = "File"
       /\ collected_data[j]["Type"] = "Folder"

\* C2: the walk descends into sibling subdirectories in ascending name order,
\* whatever order the OS lists them in: of two sibling folders, every record
\* below the one with the smaller name comes before every record below the
\* other.
C2_DescendsInNameOrder ==
  \A i, j \in DOMAIN collected_data :
    ( /\ collected_data[i]["Type"] = "Folder"
      /\ collected_data[j]["Type"] = "Folder"
      /\ Parent(PathOf(i)) = Parent(PathOf(j))
      /\ collected_data[i]["Name"] < collected_data[j]["Name"] )
    => \A a, b \in DOMAIN collected_data :
         (Under(PathOf(a), PathOf(i)) /\ Under(PathOf(b), PathOf(j))) => a < b

\* C3: for a fixed tree and a fixed configuration a further run returns a
\* Record Store equal to the one collected, element by element, whatever
\* order the OS lists the directories in.
C3_Deterministic ==
  pc = "collected" =>
    \A listing \in Listings(fs) :
      collect_directory_data(fs, hash_errors, stat_errors, variant,
                             directory_to_hash, hash_choice, listing,
                             walk_errors) = collected_data

\* the rows of a table that hold path in FullPath
RowsOf(rows, path) == {i \in DOMAIN rows : rows[i]["FullPath"] = path}

\* C4: no two records of the Record Store have the same FullPath, and an
\* export_to_sqlite that commits into an empty database leaves as many rows
\* in directory_contents as the Record Store has records.
C4_UniqueFullPath ==
  /\ \A i, j \in DOMAIN collected_data : PathOf(i) = PathOf(j) => i = j
  /\ (call.committed /\ call.rows_before = <<>>)
       => Len(db.rows) = Len(collected_data)

\* C4 witness: a committed export of two records whose entries have the same
\* name in different directories.
C4_Witness ==
  /\ call.committed
  /\ call.rows_before = <<>>
  /\ Len(db.rows) = 2
  /\ \E i, j \in DOMAIN collected_data :
       i # j /\ collected_data[i]["Name"] = collected_data[j]["Name"]

\* the fields of an Entry Record a sink emits for a hash mode, in order: the
\* four leading ones, SHA1 iff sha1 or both, MD5 iff md5 or both, three times
EmittedFields(choice) ==
  <<"Type", "FullPath", "Name", "Size">>
  \o (IF choice \in {"sha1", "both"} THEN <<"SHA1 Hash">> ELSE <<>>)
  \o (IF choice \in {"md5", "both"} THEN <<"MD5 Hash">> ELSE <<>>)
  \o <<"Creation Time", "Modification Time", "Access Time">>

\* the field a CSV header cell and a table column stand for
CsvField(h) ==
  CASE h = "Full Path" -> "FullPath"
    [] h = "Size (bytes)" -> "Size"
    [] OTHER -> h

DbField(c) ==
  CASE c = "SHA1Hash" -> "SHA1 Hash"
    [] c = "MD5Hash" -> "MD5 Hash"
    [] c = "CreationTime" -> "Creation Time"
    [] c = "ModificationTime" -> "Modification Time"
    [] c = "AccessTime" -> "Access Time"
    [] OTHER -> c

\* row holds exactly the emitted fields of item, in order
HoldsFields(row, item, choice) ==
  /\ Len(row) = Len(EmittedFields(choice))
  /\ \A i \in DOMAIN row : row[i] = item[EmittedFields(choice)[i]]

\* C5: for each hash mode the CSV header, every CSV row, the columns of a
\* newly created table and every inserted tuple have the same columns: Type,
\* path, Name, Size, then SHA1 iff the mode is sha1 or both, then MD5 iff it
\* is md5 or both, then the three times; none of the hash columns for none.
C5_SameColumns ==
  /\ csv_file # NoCsv =>
       /\ [i \in DOMAIN csv_file.header |-> CsvField(csv_file.header[i])]
            = EmittedFields(hash_choice)
       /\ Len(csv_file.rows) = Len(collected_data)
       /\ \A k \in DOMAIN csv_file.rows :
            HoldsFields(csv_file.rows[k], collected_data[k], hash_choice)
  /\ (db.exists /\ ~call.reused /\ run # "none") =>
       /\ [i \in DOMAIN db.columns |-> DbField(db.columns[i].name)]
            = EmittedFields(hash_choice)
       /\ Len(entry_data_list) = Len(collected_data)
       /\ \A k \in DOMAIN entry_data_list :
            HoldsFields(entry_data_list[k], collected_data[k], hash_choice)
       /\ \A k \in DOMAIN db.rows :
            DOMAIN db.rows[k] = ColumnNames(db)
  /\ hash_choice = "none" =>
       /\ Range(csv_file.header) \cap {"SHA1 Hash", "MD5 Hash"} = {}
       /\ ColumnNames(db) \cap {"SHA1Hash", "MD5Hash"} = {}

\* C5 witness: a run in mode both that wrote the CSV file with a row and
\* committed the rows of a new table.
C5_Witness ==
  /\ hash_choice = "both"
  /\ Len(csv_file.rows) >= 1
  /\ Len(csv_file.header) = 9
  /\ call.committed
  /\ Len(db.rows) >= 1

\* the table holds one row for each record, with the values of its tuple
HoldsStore(table) ==
  \A k \in DOMAIN collected_data :
    /\ Cardinality(RowsOf(table.rows, PathOf(k))) = 1
    /\ \A r \in RowsOf(table.rows, PathOf(k)) :
         \A i \in DOMAIN column_names_for_insert(hash_choice) :
           LET c == column_names_for_insert(hash_choice)[i] IN
           /\ c \in DOMAIN table.rows[r]
           /\ table.rows[r][c] = entry_data(collected_data[k], hash_choice)[i]

NoDuplicatePaths(rows) ==
  \A i, j \in DOMAIN rows : rows[i]["FullPath"] = rows[j]["FullPath"] => i = j

\* C6: export_to_sqlite called twice with the same Record Store, hash mode
\* and database file leaves one row per FullPath, with the second call's
\* values, and the table after the second call equals the table after the
\* first.
C6_UpsertIdempotent ==
  ( /\ run = "second"
    /\ call.committed
    /\ call.reused
    /\ prev_run.committed
    /\ prev_run.data = collected_data
    /\ prev_run.hash_choice = hash_choice )
  => /\ db.rows = call.rows_before
     /\ NoDuplicatePaths(db.rows)
     /\ Len(db.rows) = Len(collected_data)
     /\ HoldsStore(db)

\* C6 witness: the second of two committed exports of the same two records
\* in the same mode to the same file.
C6_Witness ==
  /\ run = "second"
  /\ call.committed
  /\ call.reused
  /\ prev_run.committed
  /\ prev_run.data = collected_data
  /\ prev_run.hash_choice = hash_choice
  /\ Len(collected_data) = 2

\* C7: a second export_to_sqlite into the database of an earlier run, for
\* every pair of hash modes, leaves no two rows with the same FullPath and
\* the row of every path of the second Record Store holds the second run's
\* values (the earlier run committed its rows, the write itself does not
\* fail).
C7_RerunUpdatesRows ==
  ( /\ run = "second"
    /\ pc = "idle"
    /\ prev_run.committed
    /\ call.reused
    /\ call.rows_before # <<>>
    /\ call.committed \/ call.failure = "schema" )
  => /\ NoDuplicatePaths(db.rows)
     /\ HoldsStore(db)

RECURSIVE AllApplied(_, _, _, _)
AllApplied(table, names, tuples, k) ==
  IF k > Len(tuples) THEN table
  ELSE AllApplied(insert_sql(table, names, tuples[k]), names, tuples, k + 1)

\* C8: whenever the bulk insert fails, the rows of directory_contents are
\* the rows from before the call; at no moment of a call are only some of
\* the prepared rows committed: the committed rows are those from before the
\* call or, after the commit, those with every prepared row applied.
C8_NoPartialCommit ==
  (pc = "insert" \/ call.committed \/ call.failure # "none") =>
    /\ call.failure # "none" => db.rows = call.rows_before
    /\ ~call.committed => db.rows = call.rows_before
    /\ call.committed =>
         db.rows = AllApplied([db EXCEPT !.rows = call.rows_before],
                              column_names_for_insert(hash_choice),
                              entry_data_list, 1).rows

\* C8 witness: the write failed after one of two tuples was applied, in a
\* database that held rows before the call.
C8_Witness ==
  /\ pc = "idle"
  /\ call.failure = "io"
  /\ next_row = 2
  /\ Len(entry_data_list) = 2
  /\ call.rows_before # <<>>

\* C9: when the bulk insert fails the failure is raised to the caller after
\* the rollback, and the run reports neither the completion progress of the
\* database export nor that the details were exported to SQLite.
C9_FailureSurfaced ==
  call.failure # "none" =>
    /\ call.raised
    /\ out \cap SqliteReports(variant) = {}

\* C10: in a hash mode other than none, a file that cannot be opened or read
\* gets a File record with empty hash fields, every entry of the tree has
\* its one record in the Record Store, and the CSV file and the table hold
\* one row per record.
C10_BestEffortOnHashFailure ==
  (run = "first" /\ pc # "collect") =>
    /\ Len(collected_data) = Cardinality(DOMAIN fs)
    /\ \A p \in DOMAIN fs :
         \E k \in DOMAIN collected_data :
           /\ Resolve(PathOf(k)) = p
           /\ collected_data[k]["Type"] = fs[p].kind
           /\ fs[p].kind = "File" =>
                /\ collected_data[k]["SHA1 Hash"] =
                     IF hash_choice \in {"sha1", "both"} /\ p \notin hash_errors
                     THEN <<"sha1", fs[p].content>> ELSE Empty
                /\ collected_data[k]["MD5 Hash"] =
                     IF hash_choice \in {"md5", "both"} /\ p \notin hash_errors
                     THEN <<"md5", fs[p].content>> ELSE Empty
    /\ csv_file # NoCsv =>
         \A k \in DOMAIN collected_data :
           /\ k \in DOMAIN csv_file.rows
           /\ csv_file.rows[k][2] = PathOf(k)
    /\ call.committed =>
         \A k \in DOMAIN collected_data :
           Cardinality(RowsOf(db.rows, PathOf(k))) = 1

\* C10 witness: a run in mode both in which one of two files could not be
\* read, after the CSV export and the committed SQLite export.
C10_Witness ==
  /\ hash_choice = "both"
  /\ Cardinality(hash_errors) = 1
  /\ Cardinality(Files(fs)) = 2
  /\ csv_file # NoCsv
  /\ call.committed

\* the record the Record Store holds for the entry at path p, if any
RecordsOf(p) == {k \in DOMAIN collected_data : Resolve(PathOf(k)) = p}

\* C11: a failure of os.stat on an entry the collection visits, File or Folder
\* alike, is swallowed: the collection does not raise, every entry of the tree
\* has its record, and the record of an entry os.stat failed for has Size 0
\* and empty creation, modification and access times (every directory of
\* the tree could be listed).
C11_MetadataFailureSwallowed ==
  (run = "first" /\ pc # "collect" /\ walk_errors = {}) =>
    /\ ~collect_raised
    /\ \A p \in DOMAIN fs :
         /\ RecordsOf(p) # {}
         /\ p \in stat_errors =>
              \A k \in RecordsOf(p) :
                /\ collected_data[k]["Size"] = 0
                /\ collected_data[k]["Creation Time"] = Empty
                /\ collected_data[k]["Modification Time"] = Empty
                /\ collected_data[k]["Access Time"] = Empty

\* C12: when a subdirectory of the tree cannot be listed by os.walk, the
\* collection raises; it never returns a Record Store (os.stat failed for no
\* entry, the scanned directory itself could be listed).
C12_WalkFailureIsFatal ==
  ( /\ run = "first"
    /\ pc # "collect"
    /\ stat_errors = {}
    /\ directory_to_hash \notin walk_errors
    /\ walk_errors \cap Folders(fs) # {} )
  => /\ collect_raised
     /\ pc # "collected"
     /\ csv_file = NoCsv

\* C13: when the scanned path is not a directory that can be walked at the
\* time collect_directory_data is called, the run is rejected with an error:
\* no Record Store is returned, not even an empty one, and no export file is
\* written.
C13_FailFast ==
  (run = "first" /\ pc # "collect" /\ directory_to_hash \in walk_errors) =>
    /\ collect_raised
    /\ pc # "collected"
    /\ csv_file = NoCsv

\* C19: whenever export_to_sqlite has returned or raised, the connection it
\* opened is closed: after a commit, after a failed bulk insert, and after a
\* failure of the CREATE TABLE statement before the bulk insert.
C19_ConnectionClosed ==
  (pc = "idle" /\ call.conn # "none") => call.conn = "closed"

\* the latest progress update of the phase
LastUpdate == progress[Len(progress)]

\* the interval the claims state: k = max(1, N // 1000)
ClaimedInterval(n) == IF n \div 1000 >= 1 THEN n \div 1000 ELSE 1

C15_BoundedUpdates == loop_updates <= 1001

\* C17: within a phase the items_done of successive progress updates never
\* decreases and never exceeds items_total, the final update included, also
\* when an entry is added to or removed from the tree between the counting
\* walk and the main walk.
C17_MonotoneProgress ==
  /\ \A i \in DOMAIN progress : progress[i].done <= progress[i].total
  /\ Len(progress) = 2 => progress[1].done <= progress[2].done

\* C18: the row-preparation loop of export_to_sqlite issues progress updates
\* only at item counts that are multiples of max(1, N // 1000), and when the
\* bulk insert is about to execute the label of the bulk insert has been
\* issued after the last row was prepared.
C18_PrepareThrottled ==
  /\ pc = "prepare" =>
       \A i \in DOMAIN progress :
         progress[i].done % ClaimedInterval(total_items) = 0
  /\ pc = "bulk" => (LastUpdate.label = BulkLabel \/ BulkLabel \in out)

\* C16: every access to a widget or a UI variable is made by the foreground
\* thread; the worker thread that runs _process_directory reads and writes
\* none of them directly.
C16_UiOnForegroundOnly ==
  \A a \in ui_accesses : a.thread = "main"

\* the worker threads that have not ended
LiveWorkers == {w \in DOMAIN workers : workers[w].pc # "done"}

\* C20: at most one worker thread runs at any time; from the start of a run
\* until its _finalize_success or _finalize_error has run the start button is
\* disabled; every run is finalized once, which re-enables the button; while
\* the button is enabled after a run the status label shows the final
\* outcome, never a late progress update; and a disabled button is
\* eventually enabled again.
C20_OneWorkerUntilFinalized ==
  /\ [](/\ Cardinality(LiveWorkers) <= 1
        /\ finalized <= started
        /\ (start_button = "disabled") <=> (finalized < started)
        /\ LiveWorkers # {} => start_button = "disabled"
        /\ (start_button = "normal" /\ started > 0) => status_label \in FinalOutcomes)
  /\ ((start_button = "disabled") ~> (start_button = "normal"))

\* C20 witness: two runs were started and finalized, the first showed progress
\* updates, and the second run ended with an error.
C20_Witness ==
  /\ started = 2
  /\ finalized = 2
  /\ start_button = "normal"
  /\ status_label = <<"ERROR! Check log.">>
  /\ Cardinality(LiveWorkers) = 0
  /\ Access("main", "status_label") \in ui_accesses

====
